---- MODULE Spec2Model ----
(***************************************************************************)
(* Batch ingestion of PDF documents (src/main.ts): the worker pool of      *)
(* PDFSelectionModal.onOpen, the wrapper processPDFfromTFile and the       *)
(* pipeline processPDFInternal with its storage and remote collaborators.  *)
(*                                                                         *)
(* Strings are sequences of one-token strings, so that trim, the path      *)
(* templates and the slash stripping are computed as the code computes     *)
(* them.  Every await of the code is a suspension point: one action is the *)
(* completion of the awaited operation together with the synchronous code  *)
(* that follows it up to the next await.                                   *)
(*                                                                         *)
(* Collaborators: a remote call (upload, getSignedUrl, ocr.process) may    *)
(* resolve or reject; vault.createFolder and vault.create reject when the  *)
(* path already exists and succeed otherwise; adapter.writeBinary          *)
(* overwrites; readBinary, adapter.exists and writeBinary always resolve.  *)
(* The queue holds TFile objects, so `if (!fileToProcess) continue` is     *)
(* never taken.                                                            *)
(***************************************************************************)
EXTENDS Integers, Sequences, FiniteSets, TLC

\* ------------------------------------------------------------------ bounds
MaxDocs == 2        \* documents selected in the modal
MaxWorkers == 2     \* largest parallelProcessingLimit tried
MaxImages == 1      \* images of one OCR response (batch) and of one page (reconciliation)
MaxPages == 2       \* pages in one OCR response
MaxSegs == 2        \* pieces of text and marker comments in the active note
MaxInputLen == 2    \* characters typed into the limit text field

\* ------------------------------------------------------------------ state
VARIABLES
  settings,        \* this.plugin.settings (fixed while the batch runs)
  selectedFiles,   \* base names of the selected PDFs; a document is its index
  queue,           \* const queue = [...selectedFiles]
  successCount,    \* let successCount
  failureCount,    \* let failureCount
  spawned,         \* loop variable i of the spawning for-loop
  pc,              \* per worker: the await it is suspended at
  cur,             \* per worker: fileToProcess (0: none)
  res,             \* per worker: how processPDFInternal settled
  imgIdx,          \* per worker: images of the current document already saved
  ocrImages,       \* per worker: writable images in ocrResponse of its current call
  folders,         \* storage: existing folders (none yet: the first ingestion creates them)
  mdFiles,         \* storage: markdown path -> document that created the file
  imgFiles,        \* storage: image path -> document that wrote it last
  log,             \* per worker: calls, results and notices of its current document
                   \* (a createFolderIfNotExists call is one call with one result)
  existedAtStart,  \* per document: was the artifact there when processPDFInternal started
  outcome,         \* per document: the counter the worker incremented for it
  takeCount,       \* per document: times it was passed to processPDFfromTFile
  reports,         \* aggregate-count notices issued
  \* combineMarkdownWithImages and vault.create of one ingestion
  pagesIsArray,    \* ocrResult.pages && Array.isArray(ocrResult.pages)
  ocrPages,        \* ocrResult.pages as the OCR response delivered them
  rcNotices,       \* notices shown by combineMarkdownWithImages
  sortedPages,     \* const sortedPages = ocrResult.pages.sort(...)
  rcPc,            \* "off", "image", "pageEnd", "create", "written", "thrown"
  rcPage,          \* position of `page` in sortedPages
  rcImage,         \* position of `imgObj` in page.images
  md,              \* let md
  combinedMarkdown,\* let combinedMarkdown
  emitted,         \* the value of md each page was appended with, in order
  rcWrites,        \* adapter.writeBinary calls so far: placeholder id and path
  rcFiles,         \* storage: image path -> placeholder id written there last
  artifact,        \* content vault.create was given (<<>> before it)
  \* processPdfAndSummarize
  summaryPrompts,  \* this.settings.summaryPrompts
  pdfFile,         \* is <srcBaseName>.pdf in the vault
  srcAtStart,      \* was the OCR artifact at targetMdPath when the command started
  srcFile,         \* storage: is the OCR artifact at targetMdPath
  tgPlugin,        \* is obsidian-textgenerator-plugin installed
  originalNote,    \* content of the active note when the command started
  storedNote,      \* storage: content of the active note
  noteContent,     \* let noteContent
  validMatches,    \* const validMatches
  smIdx,           \* position of matchInfo in validMatches
  smPc,            \* "off", "command", "ingest", "read", "gen", "modify", "done"
  smLog,           \* gen and modify calls, their results, and notices
  summaryTexts,    \* the summaryText of each completed gen call, in order
  \* settings tab
  limitText,       \* content of the 'Parallel Processing Limit' text field
  savedLimit,      \* data.json: <<parallelProcessingLimit>>, <<>> when it has none
  lastSaved        \* did the last onChange call saveSettings

vars == <<settings, selectedFiles, queue, successCount, failureCount, spawned,
          pc, cur, res, imgIdx, ocrImages, folders, mdFiles, imgFiles, log,
          existedAtStart, outcome, takeCount, reports,
          pagesIsArray, ocrPages, rcNotices, sortedPages, rcPc, rcPage, rcImage, md,
          combinedMarkdown, emitted, rcWrites, rcFiles, artifact,
          summaryPrompts, pdfFile, srcAtStart, srcFile, tgPlugin, originalNote,
          storedNote, noteContent,
          validMatches, smIdx, smPc, smLog, summaryTexts,
          limitText, savedLimit, lastSaved>>

tabVars == <<limitText, savedLimit, lastSaved>>

reconVars == <<pagesIsArray, ocrPages, rcNotices, sortedPages, rcPc, rcPage, rcImage,
               md, combinedMarkdown, emitted, rcWrites, rcFiles, artifact>>

smVars == <<summaryPrompts, pdfFile, srcAtStart, srcFile, tgPlugin, originalNote,
            storedNote, noteContent,
            validMatches, smIdx, smPc, smLog, summaryTexts>>

storage == <<folders, mdFiles, imgFiles>>

\* ---------------------------------------------------------------- strings
RECURSIVE TrimStart(_)
TrimStart(s) == IF s # <<>> /\ Head(s) = " " THEN TrimStart(Tail(s)) ELSE s

RECURSIVE TrimEnd(_)
TrimEnd(s) ==
  IF s # <<>> /\ s[Len(s)] = " " THEN TrimEnd(SubSeq(s, 1, Len(s) - 1)) ELSE s

\* String.prototype.trim
Trim(s) == TrimEnd(TrimStart(s))

\* folderPath.trim().replace(/^\/|\/$/g, '')
CleanPath(folderPath) ==
  LET t == Trim(folderPath)
      a == IF t # <<>> /\ Head(t) = "/" THEN Tail(t) ELSE t
  IN  IF a # <<>> /\ a[Len(a)] = "/" THEN SubSeq(a, 1, Len(a) - 1) ELSE a

BaseNames == {<<"a">>, <<"b">>}
DefaultImagesFolderName == <<"pdf-mistral-images">>
Digits == <<"0", "1", "2", "3", "4">>

\* id of the j-th image of an OCR response, "img-<j-1>.jpeg"
ImageId(j) == <<"img-", Digits[j], ".jpeg">>

\* originalId.replace(/\.(jpg|jpeg)$/i, '')
TrimmedId(originalId) ==
  IF originalId # <<>> /\ originalId[Len(originalId)] \in {".jpg", ".jpeg", ".JPG", ".JPEG"}
  THEN SubSeq(originalId, 1, Len(originalId) - 1)
  ELSE originalId

\* ------------------------------------------------------------------ paths
MdFolder == Trim(settings.markdownOutputFolder)

\* targetMdPath = mdFolder ? `${mdFolder}/${targetMdName}` : targetMdName
TargetMdPath(pdfBaseName) ==
  LET targetMdName == pdfBaseName \o <<".md">>
  IN  IF MdFolder # <<>> THEN MdFolder \o <<"/">> \o targetMdName ELSE targetMdName

FinalImagesPath ==
  LET baseFolder == Trim(settings.imagesOutputFolder)
      folderName == IF Trim(settings.imagesFolderName) # <<>>
                    THEN Trim(settings.imagesFolderName)
                    ELSE DefaultImagesFolderName
  IN  IF baseFolder # <<>> /\ folderName # <<>> THEN baseFolder \o <<"/">> \o folderName
      ELSE IF baseFolder # <<>> THEN baseFolder
      ELSE folderName

\* imageFilePath = `${finalImagesPath}/${pdfBaseName}_${trimmedId}.jpeg`
ImageFilePath(pdfBaseName, originalId) ==
  FinalImagesPath \o <<"/">> \o pdfBaseName \o <<"_">> \o TrimmedId(originalId) \o <<".jpeg">>

\* ---------------------------------------------------------------- helpers
Docs == 1..Len(selectedFiles)

\* const concurrencyLimit = this.plugin.settings.parallelProcessingLimit
concurrencyLimit == settings.parallelProcessingLimit

\* the spawning loop written with i <= concurrencyLimit
SpawnLimitOffByOne == concurrencyLimit + 1

\* for (let i = 0; i < concurrencyLimit; i++): number of workers started
SpawnLimit == concurrencyLimit

Workers == 1..SpawnLimit

Ev(op, kind) == <<op, kind>>
Logged(w, evs) == [log EXCEPT ![w] = @ \o evs]
Has(w, op, kind) == \E i \in 1..Len(log[w]) : log[w][i] = Ev(op, kind)
Count(w, op, kind) == Cardinality({i \in 1..Len(log[w]) : log[w][i] = Ev(op, kind)})

\* this.app.vault.getAbstractFileByPath(targetMdPath)
GetAbstractFileByPath(path) == path \in DOMAIN mdFiles

\* the existence guard left out
ExistingMdFileIgnored(path) == FALSE

\* if (existingMdFile) { new Notice(...); return; }
ExistingMdFile(path) == GetAbstractFileByPath(path)

\* queue[0] read without removing it
ShiftKeeps(q) == q

\* queue.shift(): what is left of the queue
Shift(q) == Tail(q)

\* documents handed to processPDFfromTFile and not yet counted by their worker
InFlight == {d \in Docs : takeCount[d] > 0 /\ outcome[d] = "none"}

EmptyMap == [p \in {} |-> 0]
Put(f, k, v) == [p \in DOMAIN f \cup {k} |-> IF p = k THEN v ELSE f[p]]

\* ------------------------------------------------------------------- Init
\* no reconciliation is being followed
ReconOff ==
  /\ pagesIsArray = FALSE
  /\ ocrPages = <<>>
  /\ rcNotices = <<>>
  /\ sortedPages = <<>>
  /\ rcPc = "off"
  /\ rcPage = 0
  /\ rcImage = 0
  /\ md = <<>>
  /\ combinedMarkdown = <<>>
  /\ emitted = <<>>
  /\ rcWrites = <<>>
  /\ rcFiles = EmptyMap
  /\ artifact = <<>>

\* no summarization is being followed
SumOff ==
  /\ summaryPrompts = <<>>
  /\ pdfFile = FALSE
  /\ srcAtStart = FALSE
  /\ srcFile = FALSE
  /\ tgPlugin = FALSE
  /\ originalNote = <<>>
  /\ storedNote = <<>>
  /\ noteContent = <<>>
  /\ validMatches = <<>>
  /\ smIdx = 0
  /\ smPc = "off"
  /\ smLog = <<>>
  /\ summaryTexts = <<>>

\* the settings tab is closed
TabOff ==
  /\ limitText = <<>>
  /\ savedLimit = <<>>
  /\ lastSaved = FALSE

\* the click handler starts: queue, counters and no worker yet
BatchStart ==
  /\ queue = [i \in 1..Len(selectedFiles) |-> i]
  /\ successCount = 0
  /\ failureCount = 0
  /\ spawned = 0
  /\ pc = [w \in Workers |-> "idle"]
  /\ cur = [w \in Workers |-> 0]
  /\ res = [w \in Workers |-> "none"]
  /\ imgIdx = [w \in Workers |-> 0]
  /\ ocrImages = [w \in Workers |-> 0]
  /\ folders = {}
  /\ mdFiles = EmptyMap
  /\ imgFiles = EmptyMap
  /\ log = [w \in Workers |-> <<>>]
  /\ existedAtStart = [d \in Docs |-> "unknown"]
  /\ outcome = [d \in Docs |-> "none"]
  /\ takeCount = [d \in Docs |-> 0]
  /\ reports = 0

Init ==
  /\ settings \in [markdownOutputFolder : {<<>>, <<"out">>},
                   imagesOutputFolder : {<<>>},
                   imagesFolderName : {DefaultImagesFolderName},
                   mistralApiKey : {<<>>, <<" ">>, <<"k">>},
                   parallelProcessingLimit : 1..MaxWorkers]
  /\ \E n \in 1..MaxDocs : selectedFiles \in [1..n -> BaseNames]
  /\ selectedFiles[1] = <<"a">>
  /\ BatchStart
  /\ ReconOff
  /\ SumOff
  /\ TabOff

\* ------------------------------------------------------------ worker loop
\* what no step of the batch assigns
constVars == <<settings, selectedFiles, reconVars, smVars, tabVars>>

\* one atomic block of the ingestion of worker w: the awaited call ends as
\* `evs` records and the worker suspends at `newpc`
Step(w, newpc, newres, evs) ==
  /\ pc' = [pc EXCEPT ![w] = newpc]
  /\ res' = [res EXCEPT ![w] = newres]
  /\ log' = Logged(w, evs)

\* processPDFInternal returns: processPDFfromTFile shows Success and returns
Return(w, evs) == Step(w, "settled", "ok", evs \o <<Ev("Success", "notice")>>)

\* processPDFInternal throws: processPDFfromTFile shows Failed and rethrows
Throw(w, evs) == Step(w, "settled", "err", evs \o <<Ev("Failed", "notice")>>)

\* while (queue.length > 0) { const fileToProcess = queue.shift(); ...
\*   await this.plugin.processPDFfromTFile(fileToProcess)  (up to readBinary)
TakeNext(w) ==
  IF queue = <<>>
  THEN /\ pc' = [pc EXCEPT ![w] = "exited"]
       /\ cur' = [cur EXCEPT ![w] = 0]
       /\ log' = [log EXCEPT ![w] = <<>>]
       /\ UNCHANGED <<queue, takeCount>>
  ELSE LET d == Head(queue) IN
       /\ queue' = Shift(queue)
       /\ pc' = [pc EXCEPT ![w] = "readBinary"]
       /\ cur' = [cur EXCEPT ![w] = d]
       /\ log' = [log EXCEPT ![w] = <<Ev("Starting", "notice"), Ev("readBinary", "call")>>]
       /\ takeCount' = [takeCount EXCEPT ![d] = @ + 1]

\* workerPromises.push(worker()): the i-th worker runs up to its first await
SpawnWorker ==
  /\ spawned < SpawnLimit
  /\ LET w == spawned + 1 IN
     /\ pc[w] = "idle"
     /\ TakeNext(w)
  /\ spawned' = spawned + 1
  /\ UNCHANGED <<constVars, successCount, failureCount, res, imgIdx, ocrImages,
                 storage, existedAtStart, outcome, reports>>

\* the click handler has run up to `await Promise.all(workerPromises)`
Running == spawned = SpawnLimit

\* --------------------------------------------------- processPDFInternal
\* the API key tested as stored, without trim()
ApiKeyMissingUntrimmed == settings.mistralApiKey = <<>>

\* const apiKey = this.settings.mistralApiKey.trim(); if (!apiKey) throw ...
ApiKeyMissing == Trim(settings.mistralApiKey) = <<>>

\* readBinary resolves; existence guard, API key check, upload is called
ReadBinaryDone(w) ==
  /\ Running
  /\ pc[w] = "readBinary"
  /\ LET d == cur[w]
         targetMdPath == TargetMdPath(selectedFiles[d])
     IN  /\ existedAtStart' = [existedAtStart EXCEPT ![d] =
                 IF GetAbstractFileByPath(targetMdPath) THEN "yes" ELSE "no"]
         /\ IF ExistingMdFile(targetMdPath)
            THEN Return(w, <<Ev("readBinary", "ok"), Ev("guard", "exists"),
                             Ev("AlreadyExists", "notice")>>)
            ELSE IF ApiKeyMissing
            THEN Throw(w, <<Ev("readBinary", "ok"), Ev("guard", "ok"),
                            Ev("apiKey", "err")>>)
            ELSE Step(w, "upload", "none",
                      <<Ev("readBinary", "ok"), Ev("guard", "ok"), Ev("upload", "call")>>)
  /\ UNCHANGED <<constVars, queue, successCount, failureCount, spawned, cur, imgIdx,
                 ocrImages, storage, outcome, takeCount, reports>>

unchangedByRemote == <<constVars, queue, successCount, failureCount, spawned, cur,
                       imgIdx, ocrImages, storage, existedAtStart, outcome, takeCount,
                       reports>>

\* the catch of upload logging the error without rethrowing it
UploadFailedSwallowed(w) ==
  Step(w, "getSignedUrl", "none", <<Ev("upload", "err"), Ev("getSignedUrl", "call")>>)

\* catch (err) { console.error(...); throw err; } of client.files.upload
UploadFailed(w) == Throw(w, <<Ev("upload", "err")>>)

\* client.files.upload settles
UploadDone(w) ==
  /\ Running
  /\ pc[w] = "upload"
  /\ \/ Step(w, "getSignedUrl", "none",
             <<Ev("upload", "ok"), Ev("getSignedUrl", "call")>>)
     \/ UploadFailed(w)
  /\ UNCHANGED unchangedByRemote

\* catch (err) { console.error(...); throw err; } of client.files.getSignedUrl
GetSignedUrlFailed(w) == Throw(w, <<Ev("getSignedUrl", "err")>>)

\* client.files.getSignedUrl settles
GetSignedUrlDone(w) ==
  /\ Running
  /\ pc[w] = "getSignedUrl"
  /\ \/ Step(w, "ocr", "none", <<Ev("getSignedUrl", "ok"), Ev("ocr", "call")>>)
     \/ GetSignedUrlFailed(w)
  /\ UNCHANGED unchangedByRemote

\* the createFolderIfNotExists call that starts with the await of `step`
FolderOf(step) == IF step = "mdFolderExists" THEN "mdFolder" ELSE "imagesFolder"

\* if (mdFolder) { await this.createFolderIfNotExists(mdFolder); }
\* ... await this.createFolderIfNotExists(finalImagesPath);
\* (createFolderIfNotExists awaits adapter.exists only for a non-empty cleanPath;
\* finalImagesPath is never empty: folderName falls back to the default)
AfterOcr ==
  IF MdFolder # <<>> /\ CleanPath(MdFolder) # <<>> THEN "mdFolderExists"
  ELSE "imagesFolderExists"

\* the catch of ocr.process calling it again
OcrFailedRetried(w) == Step(w, "ocr", "none", <<Ev("ocr", "err"), Ev("ocr", "call")>>)

\* catch (err) { console.error(...); throw err; } of client.ocr.process
OcrFailed(w) == Throw(w, <<Ev("ocr", "err")>>)

\* client.ocr.process settles
OcrDone(w) ==
  /\ Running
  /\ pc[w] = "ocr"
  /\ \/ Step(w, AfterOcr, "none", <<Ev("ocr", "ok"), Ev(FolderOf(AfterOcr), "call")>>)
     \/ OcrFailed(w)
  /\ UNCHANGED unchangedByRemote

unchangedByFolder == <<constVars, queue, successCount, failureCount, spawned, cur,
                       imgIdx, mdFiles, imgFiles, existedAtStart, outcome, takeCount,
                       reports>>

\* createFolderIfNotExists(mdFolder): adapter.exists resolves
MdFolderExists(w) ==
  /\ Running
  /\ pc[w] = "mdFolderExists"
  /\ IF CleanPath(MdFolder) \in folders
     THEN Step(w, "imagesFolderExists", "none",
               <<Ev("mdFolder", "ok"), Ev("imagesFolder", "call")>>)
     ELSE Step(w, "mdFolderCreate", "none", <<>>)
  /\ UNCHANGED <<unchangedByFolder, folders, ocrImages>>

\* createFolderIfNotExists(mdFolder): vault.createFolder settles; it rejects
\* when the folder is there by now
MdFolderCreate(w) ==
  /\ Running
  /\ pc[w] = "mdFolderCreate"
  /\ IF CleanPath(MdFolder) \in folders
     THEN /\ Throw(w, <<Ev("mdFolder", "err")>>)
          /\ UNCHANGED folders
     ELSE /\ folders' = folders \cup {CleanPath(MdFolder)}
          /\ Step(w, "imagesFolderExists", "none",
                  <<Ev("mdFolder", "ok"), Ev("imagesFolder", "call")>>)
  /\ UNCHANGED <<unchangedByFolder, ocrImages>>

\* combineMarkdownWithImages starts on an OCR response with n writable images:
\* its first await is the first saveBase64Image; with none, vault.create is next
CombineMarkdownWithImages(w, ev) ==
  \E n \in 0..MaxImages :
    LET next == IF n > 0 THEN "writeBinary" ELSE "vaultCreate" IN
    /\ ocrImages' = [ocrImages EXCEPT ![w] = n]
    /\ Step(w, next, "none", <<ev, Ev(next, "call")>>)

\* createFolderIfNotExists(finalImagesPath): adapter.exists resolves
ImagesFolderExists(w) ==
  /\ Running
  /\ pc[w] = "imagesFolderExists"
  /\ IF CleanPath(FinalImagesPath) \in folders
     THEN CombineMarkdownWithImages(w, Ev("imagesFolder", "ok"))
     ELSE /\ Step(w, "imagesFolderCreate", "none", <<>>)
          /\ UNCHANGED ocrImages
  /\ UNCHANGED <<unchangedByFolder, folders>>

\* createFolderIfNotExists(finalImagesPath): vault.createFolder settles
ImagesFolderCreate(w) ==
  /\ Running
  /\ pc[w] = "imagesFolderCreate"
  /\ IF CleanPath(FinalImagesPath) \in folders
     THEN /\ Throw(w, <<Ev("imagesFolder", "err")>>)
          /\ UNCHANGED <<folders, ocrImages>>
     ELSE /\ folders' = folders \cup {CleanPath(FinalImagesPath)}
          /\ CombineMarkdownWithImages(w, Ev("imagesFolder", "ok"))
  /\ UNCHANGED unchangedByFolder

\* the image loop of combineMarkdownWithImages is over after image j of n
LastImage(j, n) == j >= n

\* saveBase64Image: adapter.writeBinary resolves for the next writable image
WriteBinary(w) ==
  /\ Running
  /\ pc[w] = "writeBinary"
  /\ LET d == cur[w]
         j == imgIdx[w] + 1
         imageFilePath == ImageFilePath(selectedFiles[d], ImageId(j))
         next == IF LastImage(j, ocrImages[w]) THEN "vaultCreate" ELSE "writeBinary"
     IN  /\ imgFiles' = Put(imgFiles, imageFilePath, d)
         /\ imgIdx' = [imgIdx EXCEPT ![w] = j]
         /\ Step(w, next, "none", <<Ev("writeBinary", "ok"), Ev(next, "call")>>)
  /\ UNCHANGED <<constVars, queue, successCount, failureCount, spawned, cur, ocrImages,
                 folders, mdFiles, existedAtStart, outcome, takeCount, reports>>

\* await this.app.vault.create(mdFilePath, finalMd): rejects when a file is
\* at the path by now, creates it otherwise
VaultCreate(w) ==
  /\ Running
  /\ pc[w] = "vaultCreate"
  /\ LET d == cur[w]
         mdFilePath == TargetMdPath(selectedFiles[d])
     IN  IF mdFilePath \in DOMAIN mdFiles
         THEN /\ Throw(w, <<Ev("vaultCreate", "err")>>)
              /\ UNCHANGED mdFiles
         ELSE /\ mdFiles' = Put(mdFiles, mdFilePath, d)
              /\ Return(w, <<Ev("vaultCreate", "ok")>>)
  /\ UNCHANGED <<constVars, queue, successCount, failureCount, spawned, cur, imgIdx,
                 ocrImages, folders, imgFiles, existedAtStart, outcome, takeCount,
                 reports>>

\* ------------------------------------------------------------ the worker
\* try { await processPDFfromTFile(...); successCount++; } and the loop head
WorkerTry(w) ==
  /\ successCount' = successCount + 1
  /\ outcome' = [outcome EXCEPT ![cur[w]] = "succeeded"]
  /\ UNCHANGED failureCount
  /\ TakeNext(w)

\* an empty catch block: the failure is not counted
WorkerCatchUncounted(w) ==
  /\ outcome' = [outcome EXCEPT ![cur[w]] = "failed"]
  /\ UNCHANGED <<successCount, failureCount>>
  /\ TakeNext(w)

\* a failure that ends the worker: the loop is left after the catch
WorkerCatchStops(w) ==
  /\ failureCount' = failureCount + 1
  /\ outcome' = [outcome EXCEPT ![cur[w]] = "failed"]
  /\ pc' = [pc EXCEPT ![w] = "exited"]
  /\ cur' = [cur EXCEPT ![w] = 0]
  /\ log' = [log EXCEPT ![w] = <<>>]
  /\ UNCHANGED <<successCount, queue, takeCount>>

\* catch (e) { failureCount++; } and the loop head
WorkerCatch(w) ==
  /\ failureCount' = failureCount + 1
  /\ outcome' = [outcome EXCEPT ![cur[w]] = "failed"]
  /\ UNCHANGED successCount
  /\ TakeNext(w)

\* processPDFfromTFile has settled: the worker counts and goes on
WorkerResume(w) ==
  /\ Running
  /\ pc[w] = "settled"
  /\ IF res[w] = "ok" THEN WorkerTry(w) ELSE WorkerCatch(w)
  /\ res' = [res EXCEPT ![w] = "none"]
  /\ imgIdx' = [imgIdx EXCEPT ![w] = 0]
  /\ ocrImages' = [ocrImages EXCEPT ![w] = 0]
  /\ UNCHANGED <<constVars, spawned, storage, existedAtStart, reports>>

\* Promise.race in place of Promise.all: the first worker to exit resolves it
AnyWorkerDone == \E w \in Workers : pc[w] = "exited"

\* await Promise.all(workerPromises) resolves
AllWorkersDone == \A w \in Workers : pc[w] = "exited"

\* new Notice(`Processing complete. ...`); this.close()
BatchComplete ==
  /\ Running
  /\ reports = 0
  /\ AllWorkersDone
  /\ reports' = reports + 1
  /\ UNCHANGED <<constVars, queue, successCount, failureCount, spawned, pc, cur, res,
                 imgIdx, ocrImages, storage, log, existedAtStart, outcome, takeCount>>

Next ==
  \/ SpawnWorker
  \/ \E w \in Workers : ReadBinaryDone(w)
  \/ \E w \in Workers : UploadDone(w)
  \/ \E w \in Workers : GetSignedUrlDone(w)
  \/ \E w \in Workers : OcrDone(w)
  \/ \E w \in Workers : MdFolderExists(w)
  \/ \E w \in Workers : MdFolderCreate(w)
  \/ \E w \in Workers : ImagesFolderExists(w)
  \/ \E w \in Workers : ImagesFolderCreate(w)
  \/ \E w \in Workers : WriteBinary(w)
  \/ \E w \in Workers : VaultCreate(w)
  \/ \E w \in Workers : WorkerResume(w)
  \/ BatchComplete

Spec == Init /\ [][Next]_vars

\* every awaited operation settles and the event loop runs every continuation
FairSpec == Spec /\ WF_vars(Next)

\* ========================================================= reconciliation
\* combineMarkdownWithImages and the vault.create after it, for one document
\* that passed the guard alone: the OCR response is the input. Markdown is a
\* sequence of tokens: a word, a newline, an image reference ![alt](target)
\* or an Obsidian link ![[path]]; a payload is a sequence of string pieces.
batchVars == <<settings, selectedFiles, queue, successCount, failureCount, spawned,
               pc, cur, res, imgIdx, ocrImages, folders, mdFiles, imgFiles, log,
               existedAtStart, outcome, takeCount, reports, tabVars>>

Text(word) == [t |-> "text", v |-> <<word>>]
NL == [t |-> "nl", v |-> <<>>]
ImgRef(target) == [t |-> "img", v |-> target]

\* obsidianLink = `![[${imageFilePath.replace(/\\/g, '/')}]]`
ObsidianLink(imageFilePath) == [t |-> "link", v |-> imageFilePath]

\* s contains sub as a substring
Contains(s, sub) ==
  \E i \in 1..(Len(s) - Len(sub) + 1) : SubSeq(s, i, i + Len(sub) - 1) = sub

MinOf(S) == CHOOSE x \in S : \A y \in S : x <= y

\* one attempt of /!\[[^\]]*\]\((?:.*?)ID(?:.*?)\)/ at an image reference
\* heading s: `.` stops at a newline, the first lazy group runs to the first
\* occurrence of the id on the line, the second to the next `)`, which is
\* the end of an image reference. Result: tokens matched, 0 for no match.
MatchEnd(s, originalId) ==
  LET nls == {i \in 1..Len(s) : s[i].t = "nl"}
      eol == IF nls = {} THEN Len(s) ELSE MinOf(nls) - 1
      hits == {j \in 1..eol : Contains(s[j].v, originalId)}
  IN  IF hits = {} THEN 0
      ELSE LET closers == {k \in MinOf(hits)..eol : s[k].t = "img"}
           IN  IF closers = {} THEN 0 ELSE MinOf(closers)

\* md.replace(regex, obsidianLink) with the global flag
RECURSIVE ReplaceRefs(_, _, _)
ReplaceRefs(s, originalId, obsidianLink) ==
  IF s = <<>> THEN <<>>
  ELSE LET e == IF Head(s).t = "img" THEN MatchEnd(s, originalId) ELSE 0
       IN  IF e > 0
           THEN <<obsidianLink>> \o ReplaceRefs(SubSeq(s, e + 1, Len(s)), originalId, obsidianLink)
           ELSE <<Head(s)>> \o ReplaceRefs(Tail(s), originalId, obsidianLink)

JpegPrefix == "data:image/jpeg;base64,"

\* if (!base64 || base64.endsWith("...")) continue
Skipped(base64) == base64 = <<>> \/ base64[Len(base64)] = "..."

\* base64.match(/^data:image\/jpeg;base64,(.+)/)
SaveMatches(base64) == Len(base64) >= 2 /\ base64[1] = JpegPrefix

\* saveBase64Image raising an error on a payload of another format
SaveBase64ImageThrows(base64) == IF SaveMatches(base64) THEN "written" ELSE "thrown"

\* saveBase64Image: writes the file, or logs the format error and returns
SaveBase64Image(base64) == IF SaveMatches(base64) THEN "written" ELSE "returned"

\* what one pass of the image loop leaves in md
MdAfterImage(pdfBaseName, m, imgObj) ==
  IF Skipped(imgObj.imageBase64) THEN m
  ELSE ReplaceRefs(m, imgObj.id, ObsidianLink(ImageFilePath(pdfBaseName, imgObj.id)))

\* the pages as delivered
SortPagesUnsorted(pages) == pages

\* ocrResult.pages.sort((a, b) => a.index - b.index): ascending, stable
RECURSIVE SortPages(_)
SortPages(pages) ==
  IF pages = <<>> THEN <<>>
  ELSE LET p == Head(pages)
           rest == SortPages(Tail(pages))
           before == {i \in 1..Len(rest) : rest[i].index < p.index}
           n == Cardinality(before)
       IN  SubSeq(rest, 1, n) \o <<p>> \o SubSeq(rest, n + 1, Len(rest))

\* md of one page after its image loop
RECURSIVE PageMarkdown(_, _, _)
PageMarkdown(pdfBaseName, m, images) ==
  IF images = <<>> THEN m
  ELSE PageMarkdown(pdfBaseName, MdAfterImage(pdfBaseName, m, Head(images)), Tail(images))

\* combinedMarkdown += md + "\n\n" over the pages in the order given
RECURSIVE CombinePages(_, _)
CombinePages(pdfBaseName, pages) ==
  IF pages = <<>> THEN <<>>
  ELSE PageMarkdown(pdfBaseName, Head(pages).markdown, Head(pages).images)
       \o <<NL, NL>> \o CombinePages(pdfBaseName, Tail(pages))

\* the string combineMarkdownWithImages returns for a page list
CombinedMarkdownOf(pdfBaseName, pages) == CombinePages(pdfBaseName, SortPages(pages))

\* ---- OCR responses tried
ImageIdJpg(j) == <<"img-", Digits[j], ".jpg">>
JpegPayload == <<JpegPrefix, "QUJD">>
PngPayload == <<"data:image/png;base64,", "QUJD">>
TruncatedPayload == <<JpegPrefix, "QUJD", "...">>
EmptyPayload == <<>>
Image(id, base64) == [id |-> id, imageBase64 |-> base64]
Body(m, images) == [markdown |-> m, images |-> images]

PageBodies ==
  { Body(<<Text("A"), ImgRef(ImageId(1))>>, <<Image(ImageId(1), JpegPayload)>>),
    Body(<<Text("B")>>, <<>>),
    Body(<<ImgRef(ImageId(1))>>, <<Image(ImageId(1), PngPayload)>>),
    Body(<<ImgRef(ImageId(1))>>, <<Image(ImageId(1), TruncatedPayload)>>),
    Body(<<ImgRef(ImageId(1))>>, <<Image(ImageId(1), EmptyPayload)>>),
    Body(<<ImgRef(ImageId(2)), ImgRef(ImageIdJpg(1))>>, <<Image(ImageIdJpg(1), JpegPayload)>>),
    Body(<<ImgRef(ImageId(2)), Text("A"), ImgRef(ImageId(1))>>,
         <<Image(ImageId(2), TruncatedPayload), Image(ImageId(1), JpegPayload)>>),
    Body(<<ImgRef(ImageId(1)), NL, ImgRef(ImageId(2))>>,
         <<Image(ImageId(1), PngPayload), Image(ImageId(2), JpegPayload)>>) }

InputPages ==
  { [index |-> i, markdown |-> b.markdown, images |-> b.images] :
      i \in 0..(MaxPages - 1), b \in {x \in PageBodies : Len(x.images) <= MaxImages} }

\* the document reconciled
PdfBaseName == selectedFiles[1]

\* settings of the single-document runs: defaults with an API key
ConfiguredSettings ==
  [markdownOutputFolder |-> <<>>,
   imagesOutputFolder |-> <<>>,
   imagesFolderName |-> DefaultImagesFolderName,
   mistralApiKey |-> <<"k">>,
   parallelProcessingLimit |-> 1]

ReconInit ==
  /\ settings = ConfiguredSettings
  /\ SumOff
  /\ TabOff
  /\ selectedFiles = << <<"a">> >>
  /\ BatchStart
  /\ pagesIsArray \in BOOLEAN
  /\ IF pagesIsArray
     THEN \E n \in 1..MaxPages : ocrPages \in [1..n -> InputPages]
     ELSE ocrPages = <<>>
  /\ rcNotices = <<>>
  /\ sortedPages = <<>>
  /\ rcPc = "start"
  /\ rcPage = 0
  /\ rcImage = 0
  /\ md = <<>>
  /\ combinedMarkdown = <<>>
  /\ emitted = <<>>
  /\ rcWrites = <<>>
  /\ rcFiles = EmptyMap
  /\ artifact = <<>>

\* for (const page of sortedPages) { let md = page.markdown || ""; ...
EnterPage(pages, k) ==
  IF k > Len(pages)
  THEN /\ rcPc' = "create"
       /\ UNCHANGED <<rcPage, rcImage, md>>
  ELSE /\ rcPage' = k
       /\ md' = pages[k].markdown
       /\ rcImage' = 1
       /\ rcPc' = IF pages[k].images = <<>> THEN "pageEnd" ELSE "image"

\* a page list that is missing or no array raising a TypeError
NoPageListThrows ==
  /\ rcPc' = "thrown"
  /\ UNCHANGED <<sortedPages, rcPage, rcImage, md, rcNotices>>

\* if (!ocrResult.pages || !Array.isArray(ocrResult.pages)) {
\*   new Notice("OCR result does not contain pages."); return ""; }
NoPageList ==
  /\ rcNotices' = Append(rcNotices, "NoPages")
  /\ rcPc' = "create"
  /\ UNCHANGED <<sortedPages, rcPage, rcImage, md>>

\* combineMarkdownWithImages is entered: the page-list check, the sort, then
\* the first page
ReconStart ==
  /\ rcPc = "start"
  /\ IF ~pagesIsArray
     THEN NoPageList
     ELSE /\ sortedPages' = SortPages(ocrPages)
          /\ EnterPage(SortPages(ocrPages), 1)
          /\ UNCHANGED rcNotices
  /\ UNCHANGED <<batchVars, smVars, pagesIsArray, ocrPages, combinedMarkdown, emitted,
                 rcWrites, rcFiles, artifact>>

\* one pass of for (const imgObj of page.images || [])
ReconImage ==
  /\ rcPc = "image"
  /\ LET page == sortedPages[rcPage]
         imgObj == page.images[rcImage]
         base64 == imgObj.imageBase64
         imageFilePath == ImageFilePath(PdfBaseName, imgObj.id)
         saved == IF Skipped(base64) THEN "skipped" ELSE SaveBase64Image(base64)
     IN  IF saved = "thrown"
         THEN /\ rcPc' = "thrown"
              /\ UNCHANGED <<rcImage, md, rcWrites, rcFiles>>
         ELSE /\ IF saved = "written"
                 THEN /\ rcWrites' = Append(rcWrites, [page |-> rcPage, image |-> rcImage,
                                                      id |-> imgObj.id, path |-> imageFilePath])
                      /\ rcFiles' = Put(rcFiles, imageFilePath, imgObj.id)
                 ELSE UNCHANGED <<rcWrites, rcFiles>>
              /\ md' = MdAfterImage(PdfBaseName, md, imgObj)
              /\ IF rcImage < Len(page.images)
                 THEN /\ rcImage' = rcImage + 1
                      /\ rcPc' = "image"
                 ELSE /\ rcPc' = "pageEnd"
                      /\ UNCHANGED rcImage
  /\ UNCHANGED <<batchVars, smVars, pagesIsArray, ocrPages, rcNotices, sortedPages, rcPage, combinedMarkdown, emitted,
                 artifact>>

\* combinedMarkdown += md + "\n\n"; and the next page, or the return
ReconPageEnd ==
  /\ rcPc = "pageEnd"
  /\ combinedMarkdown' = combinedMarkdown \o md \o <<NL, NL>>
  /\ emitted' = Append(emitted, [index |-> sortedPages[rcPage].index, md |-> md])
  /\ IF rcPage < Len(sortedPages)
     THEN EnterPage(sortedPages, rcPage + 1)
     ELSE /\ rcPc' = "create"
          /\ UNCHANGED <<rcPage, rcImage, md>>
  /\ UNCHANGED <<batchVars, smVars, pagesIsArray, ocrPages, rcNotices, sortedPages, rcWrites, rcFiles, artifact>>

\* await this.app.vault.create(mdFilePath, finalMd)
ReconCreate ==
  /\ rcPc = "create"
  /\ artifact' = combinedMarkdown
  /\ rcPc' = "written"
  /\ UNCHANGED <<batchVars, smVars, pagesIsArray, ocrPages, rcNotices, sortedPages, rcPage, rcImage, md,
                 combinedMarkdown, emitted, rcWrites, rcFiles>>

ReconNext ==
  \/ ReconStart
  \/ ReconImage
  \/ ReconPageEnd
  \/ ReconCreate

ReconSpec == ReconInit /\ [][ReconNext]_vars

\* ========================================================== summarization
\* processPdfAndSummarize from the two vault.read calls on: the note is
\* open, its OCR artifact exists. Text is a sequence of pieces: "<!--",
\* "-->", " ", "$$", "$&" and words.
\* smallest i with pat at s[i..], 0 when pat does not occur
IndexOf(s, pat) ==
  LET at == {i \in 1..(Len(s) - Len(pat) + 1) : SubSeq(s, i, i + Len(pat) - 1) = pat}
  IN  IF at = {} THEN 0 ELSE MinOf(at)

\* replacement patterns of String.prototype.replace: "$$" inserts "$" and
\* "$&" inserts the matched substring
RECURSIVE ExpandReplacement(_, _)
ExpandReplacement(repl, matched) ==
  IF repl = <<>> THEN <<>>
  ELSE (IF Head(repl) = "$$" THEN <<"$">>
        ELSE IF Head(repl) = "$&" THEN matched
        ELSE <<Head(repl)>>) \o ExpandReplacement(Tail(repl), matched)

\* noteContent.replace(fullComment, summaryText): a string pattern, so the
\* first occurrence only
ReplaceFirst(s, pat, repl) ==
  LET i == IndexOf(s, pat)
  IN  IF i = 0 THEN s
      ELSE SubSeq(s, 1, i - 1) \o ExpandReplacement(repl, pat)
           \o SubSeq(s, i + Len(pat), Len(s))

\* [...noteContent.matchAll(/<!--\s*([\s\S]*?)\s*-->/g)] from position `from`:
\* each match runs from a "<!--" to the first "-->" after it; key is
\* match[1].trim()
RECURSIVE MatchAll(_, _)
MatchAll(s, from) ==
  LET opens == {i \in from..Len(s) : s[i] = "<!--"}
  IN  IF opens = {} THEN <<>>
      ELSE LET i == MinOf(opens)
               closes == {j \in (i + 1)..Len(s) : s[j] = "-->"}
           IN  IF closes = {} THEN <<>>
               ELSE LET j == MinOf(closes)
                    IN  <<[fullMatch |-> SubSeq(s, i, j),
                           key |-> Trim(SubSeq(s, i + 1, j - 1)),
                           pos |-> i]>> \o MatchAll(s, j + 1)

\* new Set(allMatches.map(match => match[1].trim()))
KeysInNote(allMatches) == {allMatches[i].key : i \in 1..Len(allMatches)}

\* Object.keys(promptMap): each keyComment once, in order of first insertion
RECURSIVE PromptKeys(_)
PromptKeys(prompts) ==
  IF prompts = <<>> THEN <<>>
  ELSE LET init == PromptKeys(SubSeq(prompts, 1, Len(prompts) - 1))
           k == prompts[Len(prompts)].keyComment
       IN  IF \E i \in 1..Len(init) : init[i] = k THEN init ELSE Append(init, k)

\* every configured key, wherever the note stands
KeysToProcessUnfiltered(prompts, allMatches) == PromptKeys(prompts)

\* Object.keys(promptMap).filter(key => keysInNote.has(key))
KeysToProcess(prompts, allMatches) ==
  LET InNote(key) == key \in KeysInNote(allMatches)
  IN  SelectSeq(PromptKeys(prompts), InNote)

\* for (const key of keysToProcess) { const match = allMatches.find(...);
\*   if (match) validMatches.push({ fullMatch: match[0], key }) }
RECURSIVE ValidMatches(_, _)
ValidMatches(keys, allMatches) ==
  IF keys = <<>> THEN <<>>
  ELSE LET found == {i \in 1..Len(allMatches) : allMatches[i].key = Head(keys)}
       IN  (IF found = {} THEN <<>> ELSE <<allMatches[MinOf(found)]>>)
           \o ValidMatches(Tail(keys), allMatches)

\* ---- notes, prompt settings and generated texts tried
Marker(inner) == <<"<!--">> \o inner \o <<"-->">>
Segments ==
  { <<"x">>, Marker(<<"A">>), Marker(<<" ", "A", " ">>), Marker(<<"B">>), Marker(<<"C">>) }

RECURSIVE Notes(_)
Notes(n) ==
  IF n = 0 THEN {<<>>}
  ELSE Notes(n - 1) \cup {s \o seg : s \in Notes(n - 1), seg \in Segments}

Prompt(key) == [keyComment |-> key, prompt |-> <<"p">> \o key]
PromptSettings ==
  { <<Prompt(<<"A">>), Prompt(<<"B">>)>>,
    <<Prompt(<<"B">>), Prompt(<<"A">>)>>,
    <<Prompt(<<"A">>)>>,
    <<Prompt(<<" ", "A">>)>> }
GenTexts == { <<"g">>, <<"g">> \o Marker(<<"B">>), <<"$$", "g", "$$">> }

\* the last iteration of a loop that saves after every key
LastKeyAny(i, n) == TRUE

\* the for-of loop over validMatches ends after its last element
LastKey(i, n) == i >= n

SmLogged(evs) == smLog' = smLog \o evs

\* the loop head after `done` keys: the next gen call, or vault.modify
AfterKey(done, n) ==
  IF LastKey(done, n)
  THEN /\ smPc' = "modify"
       /\ smIdx' = done
  ELSE /\ smPc' = "gen"
       /\ smIdx' = done + 1

CallAfter(done, n) == IF LastKey(done, n) THEN Ev("modify", "call") ELSE Ev("gen", "call")

SumInit ==
  /\ settings = ConfiguredSettings
  /\ selectedFiles = << <<"a">> >>
  /\ BatchStart
  /\ ReconOff
  /\ TabOff
  /\ summaryPrompts \in PromptSettings
  /\ tgPlugin \in BOOLEAN
  /\ originalNote \in Notes(MaxSegs) \ {<<>>}
  /\ storedNote = originalNote
  /\ noteContent = <<>>
  /\ validMatches = <<>>
  /\ smIdx = 0
  /\ smPc = "command"
  /\ smLog = <<>>
  /\ summaryTexts = <<>>
  /\ pdfFile \in BOOLEAN
  /\ srcAtStart \in BOOLEAN
  /\ srcFile = srcAtStart

smLocals == <<noteContent, validMatches, smIdx, summaryTexts>>

\* the command on a note titled 【Note】<srcBaseName>, up to its first await:
\* with the OCR artifact present the reads are next; without it the PDF is
\* looked up and processPDFfromTFile is called
SumCommand ==
  /\ smPc = "command"
  /\ IF srcFile
     THEN /\ smPc' = "read"
          /\ UNCHANGED smLog
     ELSE IF ~pdfFile
     THEN /\ SmLogged(<<Ev("PdfNotFound", "notice")>>)
          /\ smPc' = "done"
     ELSE /\ SmLogged(<<Ev("OcrStart", "notice"), Ev("ingest", "call")>>)
          /\ smPc' = "ingest"
  /\ UNCHANGED <<batchVars, reconVars, summaryPrompts, pdfFile, srcAtStart, srcFile,
                 tgPlugin, originalNote, storedNote, smLocals>>

\* a catch that shows the notice and goes on to the reads
IngestFailedContinues ==
  /\ SmLogged(<<Ev("ingest", "err"), Ev("FailedToProcess", "notice")>>)
  /\ smPc' = "read"
  /\ UNCHANGED srcFile

\* catch (err) { new Notice(`Failed to process: ...`); return; }
IngestFailed ==
  /\ SmLogged(<<Ev("ingest", "err"), Ev("FailedToProcess", "notice")>>)
  /\ smPc' = "done"
  /\ UNCHANGED srcFile

\* processPDFfromTFile settles: it throws, or it returns and the artifact is
\* looked up again (it is there unless it was removed in the meantime)
SumIngestDone ==
  /\ smPc = "ingest"
  /\ \/ IngestFailed
     \/ \E found \in BOOLEAN :
          /\ srcFile' = found
          /\ IF found
             THEN /\ SmLogged(<<Ev("ingest", "ok")>>)
                  /\ smPc' = "read"
             ELSE /\ SmLogged(<<Ev("ingest", "ok"), Ev("StillMissing", "notice")>>)
                  /\ smPc' = "done"
  /\ UNCHANGED <<batchVars, reconVars, summaryPrompts, pdfFile, srcAtStart,
                 tgPlugin, originalNote, storedNote, smLocals>>

\* vault.read(activeFile) resolves: markers, keys, plugin lookup, first call
SumRead ==
  /\ smPc = "read"
  /\ noteContent' = storedNote
  /\ LET allMatches == MatchAll(storedNote, 1)
         keysToProcess == KeysToProcess(summaryPrompts, allMatches)
         vm == ValidMatches(keysToProcess, allMatches)
     IN  IF keysToProcess = <<>>
         THEN /\ SmLogged(<<Ev("read", "ok"), Ev("NoMatchingKeys", "notice")>>)
              /\ smPc' = "done"
              /\ UNCHANGED <<validMatches, smIdx>>
         ELSE IF ~tgPlugin
         THEN /\ SmLogged(<<Ev("read", "ok"), Ev("NoPlugin", "notice")>>)
              /\ validMatches' = vm
              /\ smPc' = "done"
              /\ UNCHANGED smIdx
         ELSE /\ SmLogged(<<Ev("read", "ok"), Ev("SummaryStart", "notice"),
                            CallAfter(0, Len(vm))>>)
              /\ validMatches' = vm
              /\ AfterKey(0, Len(vm))
  /\ UNCHANGED <<batchVars, reconVars, summaryPrompts, pdfFile, srcAtStart, srcFile,
                 tgPlugin, originalNote,
                 storedNote, summaryTexts>>

\* a catch that shows the notice and goes on with the next key
GenFailedContinues ==
  /\ SmLogged(<<Ev("gen", "err"), Ev("ApiError", "notice"),
                CallAfter(smIdx, Len(validMatches))>>)
  /\ AfterKey(smIdx, Len(validMatches))
  /\ UNCHANGED <<noteContent, summaryTexts>>

\* catch (e) { new Notice('APIエラー: ' + ...); return; }
GenFailed ==
  /\ SmLogged(<<Ev("gen", "err"), Ev("ApiError", "notice")>>)
  /\ smPc' = "done"
  /\ UNCHANGED <<noteContent, smIdx, summaryTexts>>

\* tg.pluginAPIService.gen(promptText) settles for validMatches[smIdx]
SumGenDone ==
  /\ smPc = "gen"
  /\ \/ GenFailed
     \/ \E summaryText \in GenTexts :
          /\ noteContent' = ReplaceFirst(noteContent, validMatches[smIdx].fullMatch,
                                         summaryText)
          /\ summaryTexts' = Append(summaryTexts, summaryText)
          /\ SmLogged(<<Ev("gen", "ok"), CallAfter(smIdx, Len(validMatches))>>)
          /\ AfterKey(smIdx, Len(validMatches))
  /\ UNCHANGED <<batchVars, reconVars, summaryPrompts, pdfFile, srcAtStart, srcFile,
                 tgPlugin, originalNote,
                 storedNote, validMatches>>

\* vault.modify(activeFile, noteContent) settles
SumModifyDone ==
  /\ smPc = "modify"
  /\ smPc' = "done"
  /\ \/ /\ storedNote' = noteContent
        /\ SmLogged(<<Ev("modify", "ok"), Ev("Completed", "notice")>>)
     \/ /\ SmLogged(<<Ev("modify", "err")>>)
        /\ UNCHANGED storedNote
  /\ UNCHANGED <<batchVars, reconVars, summaryPrompts, pdfFile, srcAtStart, srcFile,
                 tgPlugin, originalNote,
                 noteContent, validMatches, smIdx, summaryTexts>>

SumNext ==
  \/ SumCommand
  \/ SumIngestDone
  \/ SumRead
  \/ SumGenDone
  \/ SumModifyDone

SumSpec == SumInit /\ [][SumNext]_vars

\* =========================================================== settings tab
\* loadSettings and the 'Parallel Processing Limit' text field. The text is
\* a sequence of characters; data.json is written by saveSettings only.
DefaultParallelProcessingLimit == 3
DecimalDigits == <<"0", "1", "2", "3", "4", "5", "6", "7", "8", "9">>
IsDigit(c) == \E d \in 1..10 : DecimalDigits[d] = c
DigitValue(c) == (CHOOSE d \in 1..10 : DecimalDigits[d] = c) - 1

\* the longest prefix of s made of decimal digits
RECURSIVE DigitPrefix(_)
DigitPrefix(s) ==
  IF s # <<>> /\ IsDigit(Head(s)) THEN <<Head(s)>> \o DigitPrefix(Tail(s)) ELSE <<>>

RECURSIVE DecimalValue(_)
DecimalValue(ds) ==
  IF ds = <<>> THEN 0
  ELSE DecimalValue(SubSeq(ds, 1, Len(ds) - 1)) * 10 + DigitValue(ds[Len(ds)])

NaN == <<>>

\* parseInt(value, 10): leading white space, an optional sign, then the
\* longest run of digits; NaN without a digit there. A number n is <<n>>.
ParseInt(value) ==
  LET t == TrimStart(value)
      signed == t # <<>> /\ Head(t) \in {"-", "+"}
      body == IF signed THEN Tail(t) ELSE t
      ds == DigitPrefix(body)
  IN  IF ds = <<>> THEN NaN
      ELSE IF signed /\ Head(t) = "-" THEN <<0 - DecimalValue(ds)>>
      ELSE <<DecimalValue(ds)>>

\* a check that lets zero through
AcceptedOrZero(num) == num # NaN /\ num[1] >= 0

\* if (!isNaN(num) && num > 0)
Accepted(num) == num # NaN /\ num[1] > 0

InputChars == {"0", "1", "2", "-", ".", "a"}

RECURSIVE Inputs(_)
Inputs(n) ==
  IF n = 0 THEN {<<>>}
  ELSE Inputs(n - 1) \cup {s \o <<c>> : s \in Inputs(n - 1), c \in InputChars}

\* Object.assign({}, DEFAULT_SETTINGS, await this.loadData())
Loaded(data) == IF data = <<>> THEN DefaultParallelProcessingLimit ELSE data[1]

batchRun == <<selectedFiles, queue, successCount, failureCount, spawned,
              pc, cur, res, imgIdx, ocrImages, folders, mdFiles, imgFiles, log,
              existedAtStart, outcome, takeCount, reports>>

SettingsInit ==
  /\ savedLimit \in {<<>>} \cup {<<n>> : n \in 1..MaxWorkers}
  /\ settings = [ConfiguredSettings EXCEPT !.parallelProcessingLimit = Loaded(savedLimit)]
  /\ limitText = <<>>
  /\ lastSaved = FALSE
  /\ selectedFiles = << <<"a">> >>
  /\ BatchStart
  /\ ReconOff
  /\ SumOff

\* onChange(value) of the text field
OnChange(value) ==
  /\ limitText' = value
  /\ LET num == ParseInt(value) IN
     IF Accepted(num)
     THEN /\ settings' = [settings EXCEPT !.parallelProcessingLimit = num[1]]
          /\ savedLimit' = <<num[1]>>
          /\ lastSaved' = TRUE
     ELSE /\ lastSaved' = FALSE
          /\ UNCHANGED <<settings, savedLimit>>
  /\ UNCHANGED <<batchRun, reconVars, smVars>>

TextChanged == \E value \in Inputs(MaxInputLen) : OnChange(value)

\* the plugin is loaded again: loadSettings; the tab shows the stored limit
LoadSettings ==
  /\ settings' = [settings EXCEPT !.parallelProcessingLimit = Loaded(savedLimit)]
  /\ limitText' = <<>>
  /\ lastSaved' = FALSE
  /\ UNCHANGED <<savedLimit, batchRun, reconVars, smVars>>

SettingsNext ==
  \/ TextChanged
  \/ LoadSettings

SettingsSpec == SettingsInit /\ [][SettingsNext]_vars

\* ================================================================ claims
N == Len(selectedFiles)
Busy == {w \in Workers : cur[w] # 0}
Doc(w) == cur[w]
RemoteOps == {"upload", "getSignedUrl", "ocr"}
FolderOps == {"mdFolder", "imagesFolder"}
WriteOps == {"writeBinary", "vaultCreate"}
Called(w, ops) == \E i \in 1..Len(log[w]) : log[w][i][1] \in ops /\ log[w][i][2] = "call"

\* ---------------------------------------------------------------------- C1
\* C1: an ingestion that finds an artifact at its destination markdown path
\* when processPDFInternal starts calls neither upload, getSignedUrl nor ocr,
\* checks and creates no folder, writes no image and does not call
\* vault.create; the step that runs the guard leaves storage as it was.
C1_NoCalls ==
  \A w \in Busy :
    existedAtStart[Doc(w)] = "yes" => ~Called(w, RemoteOps \cup FolderOps \cup WriteOps)

C1_GuardStep ==
  \A w \in Workers :
    (/\ pc[w] = "readBinary"
     /\ pc'[w] # "readBinary"
     /\ GetAbstractFileByPath(TargetMdPath(selectedFiles[cur[w]])))
    => /\ storage' = storage
       /\ pc'[w] = "settled"

C1_ExistingArtifactUntouched == [][C1_GuardStep /\ C1_NoCalls']_vars

C1_Witness ==
  \E w \in Busy : existedAtStart[Doc(w)] = "yes" /\ pc[w] = "settled"

\* ---------------------------------------------------------------------- C2
\* C2: an ingestion whose destination artifact already exists is reported as
\* a failure: processPDFfromTFile rethrows and shows no Success notice, and
\* the worker counts the document in failureCount.
C2_ExistingArtifactFails ==
  /\ \A w \in Busy :
       (existedAtStart[Doc(w)] = "yes" /\ pc[w] = "settled")
       => (res[w] = "err" /\ ~Has(w, "Success", "notice"))
  /\ \A d \in Docs : existedAtStart[d] = "yes" => outcome[d] # "succeeded"

\* ---------------------------------------------------------------------- C3
\* C3: for one destination markdown path at most one ingestion passes the
\* existence guard and goes on to write (image writes, vault.create), and a
\* created artifact stays the one its creator wrote.
ActsAsWriter(w) == Has(w, "guard", "ok") /\ Called(w, WriteOps)

C3_AtMostOneWriterPerPath ==
  /\ \A w1, w2 \in Busy :
       (/\ w1 # w2
        /\ TargetMdPath(selectedFiles[Doc(w1)]) = TargetMdPath(selectedFiles[Doc(w2)])
        /\ ActsAsWriter(w1))
       => ~ActsAsWriter(w2)
  /\ \A w \in Busy :
       Has(w, "vaultCreate", "ok") => mdFiles[TargetMdPath(selectedFiles[Doc(w)])] = Doc(w)

\* ---------------------------------------------------------------------- C4
\* C4: every document is shifted from the queue by one worker only: no
\* document is passed to processPDFfromTFile twice, no two workers hold the
\* same document, a queued document has not been taken, and when all workers
\* have exited every document has been taken exactly once.
C4_TakenExactlyOnce ==
  /\ \A d \in Docs : takeCount[d] <= 1
  /\ \A w1, w2 \in Busy : w1 # w2 => Doc(w1) # Doc(w2)
  /\ \A i \in 1..Len(queue) : takeCount[queue[i]] = 0
  /\ (Running /\ AllWorkersDone) => \A d \in Docs : takeCount[d] = 1

C4_Witness ==
  /\ concurrencyLimit >= 2
  /\ N >= 2
  /\ Running /\ AllWorkersDone
  /\ \A d \in Docs : takeCount[d] = 1

\* ---------------------------------------------------------------------- C5
\* C5: queued + in flight + succeeded + failed == N in every state, the two
\* counters count the documents with that outcome, and the aggregate report
\* is issued with succeeded + failed == N.
C5_Accounting ==
  /\ Len(queue) + Cardinality(InFlight) + successCount + failureCount = N
  /\ successCount = Cardinality({d \in Docs : outcome[d] = "succeeded"})
  /\ failureCount = Cardinality({d \in Docs : outcome[d] = "failed"})
  /\ reports > 0 => successCount + failureCount = N

C5_Witness ==
  /\ reports = 1
  /\ successCount >= 1
  /\ failureCount >= 1

\* ---------------------------------------------------------------------- C6
\* C6: whatever the outcomes of the other documents, no worker exits while
\* documents are queued, and every document of the queue is eventually handed
\* to processPDFfromTFile (checked under FairSpec).
C6_NoWorkerLeavesWork == \A w \in Workers : pc[w] = "exited" => queue = <<>>

C6_EveryDocumentHanded ==
  <>(\A d \in Docs : takeCount[d] >= 1) /\ []C6_NoWorkerLeavesWork

C6_Witness ==
  /\ concurrencyLimit = 1
  /\ \E d1, d2 \in Docs : d1 < d2 /\ outcome[d1] = "failed" /\ takeCount[d2] = 1

\* ---------------------------------------------------------------------- C7
\* C7: under FairSpec the batch completes: the aggregate report is issued,
\* at most once, and only when the queue is empty, no ingestion is in flight
\* and all workers have exited.
C7_ReportOnlyAtEnd ==
  /\ reports <= 1
  /\ reports = 1 => (queue = <<>> /\ InFlight = {} /\ \A w \in Workers : pc[w] = "exited")

C7_BatchCompletes == <>(reports = 1) /\ []C7_ReportOnlyAtEnd

C7_Witness ==
  /\ reports = 1
  /\ concurrencyLimit > N

\* ---------------------------------------------------------------------- C8
\* C8: the number of ingestions in flight never exceeds
\* parallelProcessingLimit.
C8_BoundedInFlight == Cardinality(InFlight) <= settings.parallelProcessingLimit

C8_Witness ==
  /\ Cardinality(InFlight) = settings.parallelProcessingLimit
  /\ queue # <<>>
  /\ Running

\* ---------------------------------------------------------------------- C9
\* C9: in the log of one ingestion the steps come in the order guard, upload,
\* signed URL, OCR, folder preparation, image writes, artifact create; a call
\* is issued only right after the previous operation ended well; image writes
\* and the create are issued with the folders in place; and vault.create is
\* called only when every image write of the document has ended.
StageNo(op) ==
  CASE op = "readBinary" -> 0
    [] op = "guard" -> 1
    [] op \in {"apiKey", "upload"} -> 2
    [] op = "getSignedUrl" -> 3
    [] op = "ocr" -> 4
    [] op \in FolderOps -> 5
    [] op = "writeBinary" -> 6
    [] op = "vaultCreate" -> 7
    [] OTHER -> 8

IsNotice(e) == e[2] = "notice"

C9_Ordered(w) ==
  LET l == log[w] IN
  /\ \A i, j \in 1..Len(l) :
       (i < j /\ ~IsNotice(l[i]) /\ ~IsNotice(l[j])) => StageNo(l[i][1]) <= StageNo(l[j][1])
  /\ \A i \in 1..Len(l) :
       (l[i][2] = "call" /\ l[i][1] # "readBinary")
       => /\ i > 1
          /\ l[i - 1][2] = "ok"
          /\ StageNo(l[i][1]) > 1 => Has(w, "guard", "ok")
          /\ StageNo(l[i][1]) > 2 => Has(w, "upload", "ok")
          /\ StageNo(l[i][1]) > 3 => Has(w, "getSignedUrl", "ok")
          /\ StageNo(l[i][1]) > 4 => Has(w, "ocr", "ok")
          /\ StageNo(l[i][1]) > 5 => Has(w, "imagesFolder", "ok")
          /\ (StageNo(l[i][1]) > 5 /\ MdFolder # <<>>) => Has(w, "mdFolder", "ok")
  /\ Called(w, WriteOps)
       => /\ CleanPath(FinalImagesPath) \in folders
          /\ MdFolder # <<>> => CleanPath(MdFolder) \in folders
  /\ Called(w, {"vaultCreate"})
       => /\ Count(w, "writeBinary", "ok") = Count(w, "writeBinary", "call")
          /\ Count(w, "writeBinary", "ok") = ocrImages[w]

C9_StepsInOrder == \A w \in Busy : C9_Ordered(w)

C9_Witness ==
  \E w \in Busy :
    /\ Has(w, "mdFolder", "ok")
    /\ Has(w, "writeBinary", "ok")
    /\ Has(w, "vaultCreate", "ok")

\* --------------------------------------------------------------------- C10
\* C10: when upload, getSignedUrl or ocr fails, nothing further is called by
\* that ingestion (no later remote stage, no folder check or creation, no
\* image write, no vault.create), processPDFfromTFile rethrows (Failed), the
\* worker does not take the document again, and no remote stage is called
\* twice for one ingestion.
C10_RemoteFailure(w) ==
  LET l == log[w] IN
  /\ \A op \in RemoteOps : Count(w, op, "call") <= 1
  /\ \A i \in 1..Len(l) :
       (l[i][1] \in RemoteOps /\ l[i][2] = "err")
       => /\ i + 1 = Len(l)
          /\ l[i + 1] = Ev("Failed", "notice")
          /\ pc[w] = "settled"
          /\ res[w] = "err"
          /\ ~Called(w, FolderOps \cup WriteOps)
          /\ \A j \in 1..Len(l) :
               (l[j][2] = "call" /\ l[j][1] \in RemoteOps) => StageNo(l[j][1]) <= StageNo(l[i][1])

C10_RemoteFailureStops ==
  /\ \A w \in Busy : C10_RemoteFailure(w)
  /\ \A d \in Docs : takeCount[d] <= 1

C10_Witness ==
  \E w \in Busy : Has(w, "ocr", "err") /\ pc[w] = "settled"

\* --------------------------------------------------------------------- C11
\* C11: when the API key is empty after trim() and no artifact is at the
\* destination when processPDFInternal starts, the ingestion throws at the
\* key check: it settles as a failure without having called upload,
\* getSignedUrl or ocr, prepared a folder, written an image or called
\* vault.create, and readBinary's continuation leaves storage as it was.
C11_KeyCheckStep ==
  \A w \in Workers :
    (/\ pc[w] = "readBinary"
     /\ pc'[w] # "readBinary"
     /\ ~GetAbstractFileByPath(TargetMdPath(selectedFiles[cur[w]]))
     /\ Trim(settings.mistralApiKey) = <<>>)
    => /\ storage' = storage
       /\ pc'[w] = "settled"
       /\ res'[w] = "err"
       /\ Has(w, "apiKey", "err")'

C11_NoCallsWithoutKey ==
  \A w \in Busy :
    (existedAtStart[Doc(w)] = "no" /\ Trim(settings.mistralApiKey) = <<>>)
    => ~Called(w, RemoteOps \cup FolderOps \cup WriteOps)

C11_MissingApiKeyFailsFirst == [][C11_KeyCheckStep /\ C11_NoCallsWithoutKey']_vars

C11_Witness ==
  \E w \in Busy :
    /\ existedAtStart[Doc(w)] = "no"
    /\ settings.mistralApiKey = <<" ">>
    /\ pc[w] = "settled"
    /\ Has(w, "apiKey", "err")

\* --------------------------------------------------------------------- C12
\* C12: a settled ingestion has shown exactly one terminal notice (the
\* already-exists error, Success or Failed); Starting is not terminal.
TerminalNotices == {"AlreadyExists", "Success", "Failed"}

C12_OneTerminalNotice ==
  \A w \in Busy :
    pc[w] = "settled"
    => Cardinality({i \in 1..Len(log[w]) :
                      log[w][i][1] \in TerminalNotices /\ log[w][i][2] = "notice"}) = 1

\* ---------------------------------------------------- reconciliation claims
ReconOver == rcPc \in {"create", "written"}
ImagesOf(k) == sortedPages[k].images
WroteFor(k, j) == \E i \in 1..Len(rcWrites) : rcWrites[i].page = k /\ rcWrites[i].image = j

\* the image references of m whose target holds the placeholder id
RefsTo(m, originalId) ==
  LET IsRef(tok) == tok.t = "img" /\ Contains(tok.v, originalId)
  IN  SelectSeq(m, IsRef)

\* payload that is empty, ends with "..." or lacks the JPEG data-URL prefix
Unusable(base64) ==
  \/ base64 = <<>>
  \/ base64[Len(base64)] = "..."
  \/ base64[1] # JpegPrefix

\* --------------------------------------------------------------------- C13
\* C13: once every page is emitted, each image whose payload is empty, ends
\* with "..." or lacks the data:image/jpeg;base64, prefix has had no file
\* written for it, and the emitted markdown of its page holds the references
\* to its placeholder id exactly as the page markdown had them.
C13_UnusableImageLeftAlone ==
  ReconOver =>
    \A k \in 1..Len(sortedPages) : \A j \in 1..Len(ImagesOf(k)) :
      Unusable(ImagesOf(k)[j].imageBase64)
      => /\ ~WroteFor(k, j)
         /\ RefsTo(emitted[k].md, ImagesOf(k)[j].id)
              = RefsTo(sortedPages[k].markdown, ImagesOf(k)[j].id)

\* --------------------------------------------------------------------- C14
\* C14: no payload makes reconciliation throw: it always has a next step
\* until vault.create has run; by then every page is emitted, every image
\* with a well-formed JPEG payload has been written, whatever payloads came
\* before it, and the artifact holds the combined markdown.
C14_PayloadNeverFatal ==
  /\ rcPc # "thrown"
  /\ rcPc \notin {"off", "written"} => ENABLED ReconNext
  /\ ReconOver =>
       /\ Len(emitted) = Len(ocrPages)
       /\ \A k \in 1..Len(sortedPages) : \A j \in 1..Len(ImagesOf(k)) :
            ~Unusable(ImagesOf(k)[j].imageBase64) => WroteFor(k, j)
  /\ rcPc = "written" => artifact = combinedMarkdown /\ (ocrPages # <<>> => artifact # <<>>)

C14_Witness ==
  /\ rcPc = "written"
  /\ \E k \in 1..Len(sortedPages) :
       /\ ImagesOf(k) # <<>>
       /\ Unusable(ImagesOf(k)[1].imageBase64)
       /\ ~Skipped(ImagesOf(k)[1].imageBase64)
       /\ \E i \in 1..Len(rcWrites) : rcWrites[i].page > k

\* --------------------------------------------------------------------- C15
\* C15: two image writes of one document for different placeholder ids go
\* to different paths, so neither overwrites the other's file.
C15_PathUniquePerId ==
  \A i, j \in 1..Len(rcWrites) :
    rcWrites[i].id # rcWrites[j].id => rcWrites[i].path # rcWrites[j].path

\* --------------------------------------------------------------------- C16
Perms(n) == {f \in [1..n -> 1..n] : \A i, j \in 1..n : i # j => f[i] # f[j]}
Permuted(s, f) == [i \in 1..Len(s) |-> s[f[i]]]
DistinctIndices ==
  \A i, j \in 1..Len(ocrPages) : i # j => ocrPages[i].index # ocrPages[j].index
SameForEveryPermutation ==
  \A f \in Perms(Len(ocrPages)) :
    CombinedMarkdownOf(PdfBaseName, Permuted(ocrPages, f)) = artifact

RECURSIVE Joined(_)
Joined(pagesOut) ==
  IF pagesOut = <<>> THEN <<>>
  ELSE Head(pagesOut).md \o <<NL, NL>> \o Joined(Tail(pagesOut))

EmittedAscending ==
  /\ \A i, j \in 1..Len(emitted) : i < j => emitted[i].index <= emitted[j].index
  /\ artifact = Joined(emitted)

\* C16 as stated: the artifact text is the same for every permutation of the
\* page list of any OCR response, pages ascending by index, each followed by
\* one "\n\n".
C16_SameForAnyPages ==
  rcPc = "written" => SameForEveryPermutation /\ EmittedAscending

\* C16: when the page indices of the OCR response are pairwise distinct the
\* artifact text is the same for every permutation of the page list; in
\* every case pages are emitted ascending by index, each followed by one
\* "\n\n" (pages with equal indices keep the order they arrived in).
C16_SameForDistinctIndices ==
  rcPc = "written" =>
    /\ DistinctIndices => SameForEveryPermutation
    /\ EmittedAscending

C16_Witness ==
  /\ rcPc = "written"
  /\ DistinctIndices
  /\ Len(ocrPages) >= 2
  /\ ocrPages[1].index > ocrPages[2].index
  /\ ocrPages[1].markdown # ocrPages[2].markdown

\* ---------------------------------------------------- summarization claims
SmCount(op, kind) ==
  Cardinality({i \in 1..Len(smLog) : smLog[i] = Ev(op, kind)})
SmHas(op, kind) == SmCount(op, kind) > 0
Completed == SmHas("Completed", "notice")

\* --------------------------------------------------------------------- C17
\* C17: once a gen call has failed, the command is over: the failure is the
\* last call or result in the log (no later key is sent), vault.modify is
\* not called and the stored note is the original, however many gen calls
\* succeeded before.
C17_GenFailureAborts ==
  SmHas("gen", "err") =>
    /\ smPc = "done"
    /\ SmCount("gen", "err") = 1
    /\ \A i \in 1..Len(smLog) :
         smLog[i] = Ev("gen", "err")
         => \A j \in (i + 1)..Len(smLog) : smLog[j][2] = "notice"
    /\ ~SmHas("modify", "call")
    /\ storedNote = originalNote

C17_Witness ==
  /\ SmHas("gen", "err")
  /\ SmHas("gen", "ok")
  /\ Len(validMatches) = 2

\* --------------------------------------------------------------------- C18
\* C18: a gen call is issued only when every earlier gen call has returned;
\* vault.modify is called at most once, and only after one gen call per
\* matched key has returned; a completed summarization has stored the note
\* with exactly one modify.
C18_OneAtATimeOneWrite ==
  /\ \A i \in 1..Len(smLog) :
       smLog[i] = Ev("gen", "call")
       => Cardinality({j \in 1..(i - 1) : smLog[j] = Ev("gen", "call")})
            = Cardinality({j \in 1..(i - 1) : smLog[j] = Ev("gen", "ok")})
  /\ SmCount("modify", "call") <= 1
  /\ \A i \in 1..Len(smLog) :
       smLog[i] = Ev("modify", "call")
       => /\ Cardinality({j \in 1..(i - 1) : smLog[j] = Ev("gen", "ok")})
               = Len(validMatches)
          /\ Cardinality({j \in 1..(i - 1) : smLog[j] = Ev("gen", "call")})
               = Len(validMatches)
  /\ Completed => SmCount("modify", "ok") = 1 /\ storedNote = noteContent

C18_Witness ==
  /\ Completed
  /\ Len(validMatches) = 2
  /\ SmCount("gen", "ok") = 2

\* --------------------------------------------------------------------- C19
NoConfiguredKeyInNote ==
  \A i \in 1..Len(summaryPrompts) :
    \A k \in 1..Len(MatchAll(originalNote, 1)) :
      summaryPrompts[i].keyComment # MatchAll(originalNote, 1)[k].key

\* C19: when no configured keyComment equals the trimmed inner text of a
\* marker comment of the note, the command ends at the key check: it shows
\* the no-valid-key notice, calls neither gen nor vault.modify, and the
\* stored note stays the original.
C19_NoMatchingKeys ==
  (SmHas("read", "ok") /\ NoConfiguredKeyInNote) =>
    /\ smPc = "done"
    /\ smLog[Len(smLog)] = Ev("NoMatchingKeys", "notice")
    /\ ~SmHas("gen", "call")
    /\ ~SmHas("modify", "call")
    /\ storedNote = originalNote

C19_Witness ==
  /\ smPc = "done"
  /\ NoConfiguredKeyInNote
  /\ MatchAll(originalNote, 1) # <<>>
  /\ tgPlugin
  /\ SmHas("NoMatchingKeys", "notice")

\* --------------------------------------------------------------------- C20
\* the original note with the comment at each given position replaced
RECURSIVE Rebuild(_, _, _)
Rebuild(orig, i, repls) ==
  IF i > Len(orig) THEN <<>>
  ELSE LET here == {r \in repls : r.pos = i}
       IN  IF here = {} THEN <<orig[i]>> \o Rebuild(orig, i + 1, repls)
           ELSE LET r == CHOOSE x \in here : TRUE
                IN  r.text \o Rebuild(orig, i + r.len, repls)

\* first occurrence of each matched marker comment in the original note,
\* with the text generated for its key
Replacements ==
  { [pos |-> IndexOf(originalNote, validMatches[k].fullMatch),
     len |-> Len(validMatches[k].fullMatch),
     text |-> summaryTexts[k]] : k \in 1..Len(validMatches) }

\* C20: after a completed summarization the stored note is the original
\* note with the first occurrence of each matched marker comment replaced by
\* the text generated for its key, as generated, and everything else (other
\* text, markers of keys not configured) unchanged.
C20_SavedNoteIsOriginalWithTexts ==
  Completed => storedNote = Rebuild(originalNote, 1, Replacements)

\* --------------------------------------------------------------------- C21
\* C21: in a batch with two or more workers no ingestion is failed by
\* createFolderIfNotExists: no createFolder call of the markdown or the
\* images folder is rejected, whatever the order of the workers' exists
\* checks and createFolder calls.
C21_NoDuplicateFolderError ==
  \A w \in Busy :
    SpawnLimit >= 2 => ~Has(w, "mdFolder", "err") /\ ~Has(w, "imagesFolder", "err")

\* --------------------------------------------------------------------- C23
\* C23: when ocrResult.pages is missing or not an array,
\* combineMarkdownWithImages shows its notice and returns "" without
\* throwing and without an image write; vault.create then creates the
\* artifact with empty content and processPDFInternal returns normally.
C23_NoPageListGivesEmptyArtifact ==
  (~pagesIsArray /\ rcPc # "start") =>
    /\ rcPc \in {"create", "written"}
    /\ rcNotices = <<"NoPages">>
    /\ combinedMarkdown = <<>>
    /\ rcWrites = <<>>
    /\ rcFiles = EmptyMap
    /\ rcPc = "create" => ENABLED ReconCreate
    /\ rcPc = "written" => artifact = <<>>

C23_Witness ==
  /\ ~pagesIsArray
  /\ rcPc = "written"
  /\ artifact = <<>>
  /\ rcNotices = <<"NoPages">>

\* --------------------------------------------------------------------- C22
IngestSucceeded == SmHas("ingest", "ok") /\ srcFile

\* C22: when the OCR artifact is missing as the command starts, the note is
\* read and gen is called only after processPDFfromTFile has returned and
\* the artifact is there; when processPDFfromTFile throws, or the artifact
\* is still missing after it returned, the command ends without a gen call
\* and without vault.modify, the stored note being the original.
C22_IngestionBeforeSummary ==
  ~srcAtStart =>
    /\ (smPc \in {"read", "gen", "modify"} \/ SmHas("read", "ok")) => IngestSucceeded
    /\ \A i \in 1..Len(smLog) :
         smLog[i] \in {Ev("read", "ok"), Ev("gen", "call"), Ev("modify", "call")}
         => \E j \in 1..(i - 1) : smLog[j] = Ev("ingest", "ok")
    /\ (SmHas("ingest", "err") \/ (SmHas("ingest", "ok") /\ ~srcFile)) =>
         /\ smPc = "done"
         /\ ~SmHas("read", "ok")
         /\ ~SmHas("gen", "call")
         /\ ~SmHas("modify", "call")
         /\ storedNote = originalNote

C22_Witness ==
  /\ ~srcAtStart
  /\ IngestSucceeded
  /\ SmHas("gen", "ok")
  /\ Completed

\* --------------------------------------------------------------------- C24
\* a numeral of a positive integer: digits only, not all of them zero
IsPositiveInteger(value) ==
  /\ value # <<>>
  /\ \A i \in 1..Len(value) : IsDigit(value[i])
  /\ \E i \in 1..Len(value) : value[i] # "0"

LimitPositive ==
  /\ settings.parallelProcessingLimit \in Nat \ {0}
  /\ savedLimit # <<>> => savedLimit[1] \in Nat \ {0}

Untouched == UNCHANGED <<settings, savedLimit>> /\ ~lastSaved'

====
